---- MODULE Spec2Model ----
(***************************************************************************)
(* One-Billion-Row-Challenge-Python.                                       *)
(*                                                                         *)
(* Two programs are modelled:                                              *)
(*   - the grouped min/mean/max query of src/using_duckdb.py and           *)
(*     src/using_polars.py, run as a parallel streaming group-by: the      *)
(*     source is resolved, scanned in record-aligned chunks by parallel    *)
(*     workers that each build a partial aggregate (MIN, MAX, SUM, COUNT   *)
(*     per station), the partial aggregates are combined, and the final    *)
(*     projection derives the result rows (specification Spec);            *)
(*   - the synthetic data writer build_test_data of                        *)
(*     src/create_measurements.py (specification GenSpec).                 *)
(*                                                                         *)
(* Units.  A temperature literal of the text file is held in hundredths    *)
(* of a degree (the literal 1.5 is 150), so that ROUND(temperature * 10)   *)
(* is a real rounding.  t10 values, minima, maxima and sums are in tenths. *)
(* A reported mean is the exact rational <<num, den>> (in lowest terms) of *)
(* tenths, so that a mean holding more than one decimal is visible.        *)
(***************************************************************************)
EXTENDS Integers, Sequences, FiniteSets, TLC

\* ------------------------------------------------------------------ bounds

\* Longest source, in lines.
MaxLen == 3
\* Largest number of chunks the scan is split into.
MaxChunks == 3
\* Largest `rows` argument of build_test_data.
MaxRows == 4
\* Largest `batch_size` argument of build_test_data.
MaxBatch == 3

\* --------------------------------------------------------------- constants

\* CAST(... AS SMALLINT) / cast(pl.Int16): the 16-bit signed range.
Int16Min == -32768
Int16Max == 32767
\* The declared domain of a scaled value (t_min, t_max of the generator, * 10).
ScaledMin == -999
ScaledMax == 999

\* ------------------------------------------------------------------ inputs

Stations == {"A", "B"}

\* A line of the source.  sep: the line holds the ';' delimiter; num: the text
\* after it parses as a number; h: that number, in hundredths of a degree.
Line(k, hundredths) == [key |-> k, sep |-> TRUE, num |-> TRUE, h |-> hundredths]

\* A;0.1  A;0.2  B;0.18  B;-5.3, and A;150.0: outside the declared domain
\* [-99.9, 99.9], inside SMALLINT once scaled.
WellTypedLines ==
    {Line("A", 10), Line("A", 20), Line("B", 18), Line("B", -530), Line("A", 15000)}
\* A;3300.0: 33000 does not fit a SMALLINT.
OverflowLine == Line("A", 330000)
\* `Z;abc`
NonNumericLine == [key |-> "Z", sep |-> TRUE, num |-> FALSE, h |-> 0]
\* a line with no ';'
NoSeparatorLine == [key |-> "Z", sep |-> FALSE, num |-> FALSE, h |-> 0]
Lines == WellTypedLines \cup {OverflowLine, NonNumericLine, NoSeparatorLine}

RECURSIVE SeqsUpTo(_, _)
SeqsUpTo(S, n) ==
    IF n = 0 THEN {<<>>}
    ELSE LET shorter == SeqsUpTo(S, n - 1)
         IN  shorter \cup {Append(s, x) : s \in {t \in shorter : Len(t) = n - 1}, x \in S}

Sources == SeqsUpTo(Lines, MaxLen)

\* ----------------------------------------------------------- pure functions

Abs(x) == IF x < 0 THEN -x ELSE x

RECURSIVE GCD(_, _)
GCD(a, b) == IF b = 0 THEN a ELSE GCD(b, a % b)

\* ROUND of num/den (den > 0) to an integer: ties away from zero.
RoundHalfAway(num, den) ==
    LET q == (2 * Abs(num) + den) \div (2 * den)
    IN  IF num < 0 THEN -q ELSE q

\* ROUND(temperature * 10) / (measure * 10).round(0): hundredths to tenths.
Scale(h) == RoundHalfAway(h, 10)

\* CAST(x AS SMALLINT) / cast(pl.Int16) succeeds.
FitsInt16(x) == x >= Int16Min /\ x <= Int16Max

\* read_csv with columns station VARCHAR, temperature DOUBLE and no
\* ignore_errors (scan_csv: measure Float32, no ignore_errors): a row either
\* converts or the scan raises.
RowConverts(line) == line.sep /\ line.num

\* The data CTE on one line: "error", or the row (station, t10).
ParseLine(line) ==
    IF ~RowConverts(line) THEN [ok |-> FALSE, station |-> line.key, t10 |-> 0]
    ELSE IF ~FitsInt16(Scale(line.h)) THEN [ok |-> FALSE, station |-> line.key, t10 |-> 0]
    ELSE [ok |-> TRUE, station |-> line.key, t10 |-> Scale(line.h)]

Min2(a, b) == IF a <= b THEN a ELSE b
Max2(a, b) == IF a >= b THEN a ELSE b

\* The aggregate state of a group on its first row, with the count left at 0.
NewStateNoCount(v) == [mn |-> v, mx |-> v, sm |-> v, n |-> 0]

\* The aggregate state of a group on its first row:
\* MIN(t10), MAX(t10), SUM(t10), COUNT(*) over one row.
NewState(v) == [mn |-> v, mx |-> v, sm |-> v, n |-> 1]

\* One more row of the group.  SUM(t10)::BIGINT and COUNT(*)::BIGINT are 64
\* bits wide: a source of the model's lengths stays far inside them.
Update(s, v) ==
    [mn |-> Min2(s.mn, v), mx |-> Max2(s.mx, v), sm |-> s.sm + v, n |-> s.n + 1]

\* GROUP BY station over one more row: a partial map is a function from the
\* stations seen to their aggregate states.
Accumulate(m, station, v) ==
    [k \in DOMAIN m \cup {station} |->
        IF k = station
        THEN IF station \in DOMAIN m THEN Update(m[station], v) ELSE NewState(v)
        ELSE m[k]]

\* A combine that keeps the left sum (a lost update).
CombineLeftSum(a, b) ==
    [mn |-> Min2(a.mn, b.mn), mx |-> Max2(a.mx, b.mx), sm |-> a.sm, n |-> a.n + b.n]

\* Two partial states of one group combined: MIN of the minima, MAX of the
\* maxima, SUM of the sums, sum of the counts.
Combine(a, b) ==
    [mn |-> Min2(a.mn, b.mn), mx |-> Max2(a.mx, b.mx), sm |-> a.sm + b.sm, n |-> a.n + b.n]

\* A merge that keeps the left map's state for a station both maps hold.
MergeMapsLeftWins(m1, m2) ==
    [k \in DOMAIN m1 \cup DOMAIN m2 |->
        IF k \in DOMAIN m1 THEN m1[k] ELSE m2[k]]

\* Two partial maps combined, station by station.
MergeMaps(m1, m2) ==
    [k \in DOMAIN m1 \cup DOMAIN m2 |->
        IF k \in DOMAIN m1 /\ k \in DOMAIN m2 THEN Combine(m1[k], m2[k])
        ELSE IF k \in DOMAIN m1 THEN m1[k] ELSE m2[k]]

EmptyMap == [k \in {} |-> NewState(0)]

\* The partial aggregate of a sequence of rows that all converted.
RECURSIVE AggregateRows(_, _)
AggregateRows(m, lines) ==
    IF lines = <<>> THEN m
    ELSE LET r == ParseLine(Head(lines))
         IN  AggregateRows(Accumulate(m, r.station, r.t10), Tail(lines))

\* A rational num/den (den > 0) in lowest terms.
Ratio(num, den) ==
    LET g == GCD(Abs(num), den)
    IN  <<num \div g, den \div g>>

\* The mean column, in tenths.
\*   duckdb: ROUND((sum_t10::DOUBLE / n) / 10.0, 1)
\*   polars: sum_t10 / n / 10, with no rounding
MeanTenths(eng, s) ==
    IF eng = "duckdb" THEN <<RoundHalfAway(s.sm, s.n), 1>> ELSE Ratio(s.sm, s.n)

\* The final projection of one group.
ResultRow(eng, k, s) ==
    [station |-> k, min |-> s.mn, mean |-> MeanTenths(eng, s), max |-> s.mx]

\* The final projection.
Finalize(eng, m) == {ResultRow(eng, k, m[k]) : k \in DOMAIN m}

\* All ways to cut a source into exactly n consecutive chunks of whole lines,
\* each holding at least one line (the scan never splits a line).
RECURSIVE Splits(_, _)
Splits(s, n) ==
    IF n = 1 THEN IF s = <<>> THEN {} ELSE {<<s>>}
    ELSE UNION {{<<SubSeq(s, 1, i)>> \o rest :
                    rest \in Splits(SubSeq(s, i + 1, Len(s)), n - 1)} : i \in 1..Len(s)}

\* The chunkings of a source: 1..MaxChunks chunks; an empty source is one
\* chunk with no line.
Chunkings(s) ==
    IF s = <<>> THEN {<<s>>} ELSE UNION {Splits(s, n) : n \in 1..MaxChunks}

\* Every line of a chunk converts.
ChunkParses(chunk) == \A i \in 1..Len(chunk) : ParseLine(chunk[i]).ok

\* ------------------------------------------------------------------- state

VARIABLES
    engine,         \* "duckdb" or "polars": which of the two scripts runs
    supplied,       \* the caller passed paths_glob / paths (not None)
    globMatches,    \* the glob (or the supplied paths) matches a file
    defaultExists,  \* data/weather_stations.txt exists
    src,            \* the source handed to the scan: "none", "glob", "default"
    input,          \* the lines of the source that is scanned
    chunks,         \* the chunks of the scan, a sequence of sequences of lines
    done,           \* chunks whose worker has finished and handed its map over
    pending,        \* handed partial maps not yet folded: [ids, m]
    merged,         \* the merge stage's map
    mergedIds,      \* chunks folded into merged
    status,         \* "start", "resolved", "running", "failed", "notfound", "ok"
    result,         \* the rows returned (meaningful once status = "ok")
    g_pc,           \* build_test_data: "idle", "start", "loop", "tail", "close", "done", "exit1"
    rows,           \* build_test_data: the rows argument
    batch_size,     \* build_test_data: the batch_size argument
    full_batches,   \* build_test_data: divmod quotient
    remainder,      \* build_test_data: divmod remainder
    batches_done,   \* build_test_data: iterations of the batch loop done
    outfile         \* build_test_data: the lines written to the file

engineVars == <<engine, supplied, globMatches, defaultExists, src, input, chunks, done,
                pending, merged, mergedIds, status, result>>
genVars == <<g_pc, rows, batch_size, full_batches, remainder, batches_done, outfile>>
vars == <<engineVars, genVars>>

ChunkIds == 1..Len(chunks)

\* ---------------------------------------------------- the aggregation query

\* create_duckdb_fast's paths_glob always holds a glob (supplied = TRUE);
\* create_polars_df_ultra's paths may be None (supplied = FALSE).
EngineInit ==
    /\ engine \in {"duckdb", "polars"}
    /\ supplied \in (IF engine = "duckdb" THEN {TRUE} ELSE BOOLEAN)
    /\ globMatches \in BOOLEAN
    /\ defaultExists \in BOOLEAN
    /\ src = "none"
    /\ input = <<>>
    /\ chunks = <<>>
    /\ done = {}
    /\ pending = {}
    /\ merged = EmptyMap
    /\ mergedIds = {}
    /\ status = "start"
    /\ result = {}

\* The source the scan is given.
\*   duckdb: files = sorted(glob(paths_glob)); src = paths_glob if files else
\*           "data/weather_stations.txt"
\*   polars: only when paths is None: found = sorted(glob(...));
\*           paths = found if found else "data/weather_stations.txt"
ResolvedSource(eng, sup, matches) ==
    IF eng = "polars" /\ sup THEN "glob"
    ELSE IF matches THEN "glob" ELSE "default"

Resolve ==
    /\ status = "start"
    /\ src' = ResolvedSource(engine, supplied, globMatches)
    /\ status' = "resolved"
    /\ UNCHANGED <<engine, supplied, globMatches, defaultExists, input, chunks, done,
                   pending, merged, mergedIds, result>>
    /\ UNCHANGED genVars

\* The file(s) named by src exist.
SourceExists == \/ src = "glob" /\ globMatches
                \/ src = "default" /\ defaultExists

\* read_csv / scan_csv of a source that does not exist raises: no row is read.
OpenMissing ==
    /\ status = "resolved"
    /\ ~SourceExists
    /\ status' = "notfound"
    /\ UNCHANGED <<engine, supplied, globMatches, defaultExists, src, input, chunks, done,
                   pending, merged, mergedIds, result>>
    /\ UNCHANGED genVars

\* The scan of a source with no data raises.
\*   polars: scan_csv is called without raise_if_empty, which defaults to True
\*           (NoDataError); duckdb: read_csv gives a relation with no row.
ScanRaisesIfEmpty(eng) == eng = "polars"

\* The scan starts: the source's lines are cut into chunks, one per worker;
\* or the source has no data and the scan raises.
OpenScan ==
    /\ status = "resolved"
    /\ SourceExists
    /\ \E content \in Sources :
         /\ input' = content
         /\ IF content = <<>> /\ ScanRaisesIfEmpty(engine)
            THEN /\ chunks' = chunks
                 /\ status' = "failed"
            ELSE /\ chunks' \in Chunkings(content)
                 /\ status' = "running"
    /\ UNCHANGED <<engine, supplied, globMatches, defaultExists, src, done, pending,
                   merged, mergedIds, result>>
    /\ UNCHANGED genVars

\* Worker c scans its chunk to the end, in isolation: every line converts and
\* is aggregated into the worker's own partial map, which is handed to the
\* merge; or a line does not convert, the query raises and returns nothing.
RunWorker(c) ==
    /\ status = "running"
    /\ c \notin done
    /\ IF ChunkParses(chunks[c])
       THEN /\ done' = done \cup {c}
            /\ pending' = pending \cup
                          {[ids |-> {c}, m |-> AggregateRows(EmptyMap, chunks[c])]}
            /\ status' = status
       ELSE /\ status' = "failed"
            /\ UNCHANGED <<done, pending>>
    /\ UNCHANGED <<engine, supplied, globMatches, defaultExists, src, input, chunks,
                   merged, mergedIds, result>>
    /\ UNCHANGED genVars

\* Two handed partial maps are combined with each other (tree reduction).
TreeReduce ==
    /\ status = "running"
    /\ \E p \in pending : \E q \in pending \ {p} :
         pending' = (pending \ {p, q}) \cup
                    {[ids |-> p.ids \cup q.ids, m |-> MergeMaps(p.m, q.m)]}
    /\ UNCHANGED <<engine, supplied, globMatches, defaultExists, src, input, chunks, done,
                   merged, mergedIds, status, result>>
    /\ UNCHANGED genVars

\* A handed partial map is folded into the merged map (sequential fold, in
\* the order the maps happen to be taken).
Fold ==
    /\ status = "running"
    /\ \E p \in pending :
         /\ merged' = MergeMaps(merged, p.m)
         /\ mergedIds' = mergedIds \cup p.ids
         /\ pending' = pending \ {p}
    /\ UNCHANGED <<engine, supplied, globMatches, defaultExists, src, input, chunks, done,
                   status, result>>
    /\ UNCHANGED genVars

\* Every chunk is folded in: the final projection is returned.
Return ==
    /\ status = "running"
    /\ mergedIds = ChunkIds
    /\ result' = Finalize(engine, merged)
    /\ status' = "ok"
    /\ UNCHANGED <<engine, supplied, globMatches, defaultExists, src, input, chunks, done,
                   pending, merged, mergedIds>>
    /\ UNCHANGED genVars

GenIdle ==
    /\ g_pc = "idle"
    /\ rows = 0
    /\ batch_size = 1
    /\ full_batches = 0
    /\ remainder = 0
    /\ batches_done = 0
    /\ outfile = <<>>

Init == EngineInit /\ GenIdle

Next ==
    \/ Resolve
    \/ OpenMissing
    \/ OpenScan
    \/ \E c \in ChunkIds : RunWorker(c)
    \/ TreeReduce
    \/ Fold
    \/ Return

Spec == Init /\ [][Next]_vars

\* ------------------------------------------------------- build_test_data

\* random.uniform(t_min, t_max) printed with one decimal, in tenths.
GenTenths == {ScaledMin, 0, ScaledMax}

\* f"{st};{value:.1f}\n": a line with the delimiter and a one-decimal number.
FormatLine(st, tenths) == Line(st, tenths * 10)

GenLines == {FormatLine(st, t) : st \in Stations, t \in GenTenths}

\* The batches a writelines call can write: k lines, each a station drawn
\* from names with one value.
Batches(k) == [1..k -> GenLines]

\* A divmod that rounds the number of full batches up.
DivmodCeil(r, b) == <<(r + b - 1) \div b, r % b>>

\* divmod(rows, batch_size)
Divmod(r, b) == <<r \div b, r % b>>

EngineIdle ==
    /\ engine = "duckdb"
    /\ supplied = TRUE
    /\ globMatches = FALSE
    /\ defaultExists = FALSE
    /\ src = "none"
    /\ input = <<>>
    /\ chunks = <<>>
    /\ done = {}
    /\ pending = {}
    /\ merged = EmptyMap
    /\ mergedIds = {}
    /\ status = "idle"
    /\ result = {}

GenInit ==
    /\ g_pc = "start"
    /\ rows \in 0..MaxRows
    /\ batch_size \in 1..MaxBatch
    /\ full_batches = 0
    /\ remainder = 0
    /\ batches_done = 0
    /\ outfile = <<>>

\* full_batches, remainder = divmod(rows, batch_size); the file is opened
\* for writing (truncated).
GenOpen ==
    /\ g_pc = "start"
    /\ full_batches' = Divmod(rows, batch_size)[1]
    /\ remainder' = Divmod(rows, batch_size)[2]
    /\ outfile' = <<>>
    /\ g_pc' = "loop"
    /\ UNCHANGED <<rows, batch_size, batches_done>>
    /\ UNCHANGED engineVars

\* One iteration of `for _ in range(full_batches)`: batch_size lines.
GenWriteBatch ==
    /\ g_pc = "loop"
    /\ batches_done < full_batches
    /\ \E batch \in Batches(batch_size) : outfile' = outfile \o batch
    /\ batches_done' = batches_done + 1
    /\ UNCHANGED <<g_pc, rows, batch_size, full_batches, remainder>>
    /\ UNCHANGED engineVars

\* After the loop: `if remainder:` writes the remaining lines.
GenWriteTail ==
    /\ g_pc = "loop"
    /\ batches_done = full_batches
    /\ IF remainder # 0
       THEN \E batch \in Batches(remainder) : outfile' = outfile \o batch
       ELSE outfile' = outfile
    /\ g_pc' = "close"
    /\ UNCHANGED <<rows, batch_size, full_batches, remainder, batches_done>>
    /\ UNCHANGED engineVars

\* The with block closes the file and the function returns.
GenClose ==
    /\ g_pc = "close"
    /\ g_pc' = "done"
    /\ UNCHANGED <<rows, batch_size, full_batches, remainder, batches_done, outfile>>
    /\ UNCHANGED engineVars

\* except OSError: sys.exit(1).  The open, a write or the close fails; what
\* had reached the file stays.
GenOSError ==
    /\ g_pc \in {"start", "loop", "close"}
    /\ g_pc' = "exit1"
    /\ UNCHANGED <<rows, batch_size, full_batches, remainder, batches_done, outfile>>
    /\ UNCHANGED engineVars

\* A step of a run on which no OSError is raised.
GenStep ==
    \/ GenOpen
    \/ GenWriteBatch
    \/ GenWriteTail
    \/ GenClose

GenNext ==
    \/ GenStep
    \/ GenOSError

GenSpecInit == EngineIdle /\ GenInit

GenSpec == GenSpecInit /\ [][GenNext]_vars

\* ------------------------------------------------------------------ claims

\* The stations of a sequence of lines.
KeysOf(lines) == {lines[i].key : i \in 1..Len(lines)}

\* The stations two chunks of the scan share.
SharedKeys(c, d) == KeysOf(chunks[c]) \cap KeysOf(chunks[d])

\* Every map the merge stage holds: the handed partial maps and the merged map.
HeldMaps == {p.m : p \in pending} \cup {merged}

\* Every aggregate state of every held map.
HeldStates == UNION {{m[k] : k \in DOMAIN m} : m \in HeldMaps}

\* C1: whatever the number of chunks the source was cut into, the rows
\* returned are the rows of the whole source aggregated as a single chunk.
C1_ChunkCountIndependent ==
    status = "ok" => result = Finalize(engine, AggregateRows(EmptyMap, input))

\* C1 witness: a result was returned from three chunks, two of which hold
\* rows of the same station.
C1_Witness ==
    /\ status = "ok"
    /\ Len(chunks) = 3
    /\ SharedKeys(1, 3) # {}
    /\ result # {}

\* The partial maps of the chunks in ids, combined in chunk order.
RECURSIVE InOrderFold(_, _)
InOrderFold(ids, upto) ==
    IF upto = 0 THEN EmptyMap
    ELSE IF upto \in ids
         THEN MergeMaps(InOrderFold(ids, upto - 1), AggregateRows(EmptyMap, chunks[upto]))
         ELSE InOrderFold(ids, upto - 1)

\* C2: combining is commutative and associative on the maps the merge holds,
\* and whatever the order in which workers finished and their maps were
\* tree-reduced or folded, each map held is the in-order combination of the
\* partial maps of the chunks it covers.
C2_MergeOrderIndependent ==
    /\ \A p \in pending : \A q \in pending :
         /\ MergeMaps(p.m, q.m) = MergeMaps(q.m, p.m)
         /\ MergeMaps(MergeMaps(merged, p.m), q.m) = MergeMaps(merged, MergeMaps(p.m, q.m))
    /\ \A p \in pending : p.m = InOrderFold(p.ids, Len(chunks))
    /\ merged = InOrderFold(mergedIds, Len(chunks))

\* C2 witness: chunk 3 was folded first, chunk 1 after it, chunk 2 is still to
\* come, and all three hold rows of one station.
C2_Witness ==
    /\ status = "running"
    /\ Len(chunks) = 3
    /\ mergedIds = {1, 3}
    /\ 2 \notin done
    /\ SharedKeys(1, 2) \cap SharedKeys(2, 3) # {}

\* C4 (as claimed): a result is returned only if no line of the source is
\* malformed: each has the separator, a numeric value, and a scaled value
\* inside the declared domain.
SpecWellFormed(line) ==
    /\ line.sep
    /\ line.num
    /\ Scale(line.h) >= ScaledMin
    /\ Scale(line.h) <= ScaledMax

C4_AbortOnMalformed ==
    status = "ok" => \A i \in 1..Len(input) : SpecWellFormed(input[i])

\* C5 (as claimed): every reported mean holds exactly one decimal: ten times
\* the mean is the integer round(sum / count), ties away from zero.
C5_MeanOneDecimal ==
    status = "ok" =>
        \A r \in result :
            r.mean = <<RoundHalfAway(merged[r.station].sm, merged[r.station].n), 1>>

\* C6 (as claimed): when the supplied path or glob matches nothing, the run
\* ends not found: no source is scanned and nothing is returned.
C6_SourceNotFound ==
    (supplied /\ ~globMatches) => status \in {"start", "resolved", "notfound"}

\* The lines of the source that belong to station k.
Occurrences(k) == {i \in 1..Len(input) : input[i].key = k}

RECURSIVE SumScaled(_)
SumScaled(S) ==
    IF S = {} THEN 0
    ELSE LET i == CHOOSE x \in S : TRUE
         IN  Scale(input[i].h) + SumScaled(S \ {i})

\* The part of C7 about sources that are aggregated: a returned result holds
\* exactly one row per station of the source, and the merged state of a
\* station counts its lines, holds the least and the greatest of their scaled
\* values and their total.
AggregatesMatchSource ==
    status = "ok" =>
         /\ DOMAIN merged = KeysOf(input)
         /\ {r.station : r \in result} = KeysOf(input)
         /\ Cardinality(result) = Cardinality(KeysOf(input))
         /\ \A k \in KeysOf(input) :
              LET occ == Occurrences(k)
                  st == merged[k]
              IN  /\ st.n = Cardinality(occ)
                  /\ st.sm = SumScaled(occ)
                  /\ \E i \in occ : st.mn = Scale(input[i].h)
                  /\ \E i \in occ : st.mx = Scale(input[i].h)
                  /\ \A i \in occ : st.mn <= Scale(input[i].h) /\ Scale(input[i].h) <= st.mx

\* C7 (as claimed): a returned result holds exactly one row per station of
\* the source with the count, minimum, maximum and sum of its lines, and a
\* source with no record gives an empty result, never an error.
C7_OneRowPerKey ==
    /\ AggregatesMatchSource
    /\ input = <<>> => status # "failed"
    /\ (status = "ok" /\ input = <<>>) => result = {}

\* C8 (as claimed): every aggregate state is built from scaled values inside
\* the declared domain [ScaledMin, ScaledMax] only.
C8_ScaledInDomain ==
    \A st \in HeldStates : st.mn >= ScaledMin /\ st.mx <= ScaledMax

\* C9: every aggregate state of a partial map and of the merged map has
\* count >= 1 and min <= max, and a state of count 1 is {min = max = sum}.
C9_StateInvariant ==
    \A st \in HeldStates :
        /\ st.n >= 1
        /\ st.mn <= st.mx
        /\ st.n = 1 => (st.mn = st.mx /\ st.sm = st.mn)

\* C9 witness: the merged map holds a state of three rows combined from two
\* chunks: created by a first row, updated by a second, combined with a third.
C9_Witness ==
    /\ Len(chunks) = 2
    /\ mergedIds = {1, 2}
    /\ \E k \in DOMAIN merged : merged[k].n = 3 /\ merged[k].mn < merged[k].mx

\* C10: build_test_data returns having written exactly `rows` lines,
\* full_batches * batch_size from the loop and `remainder` from the tail
\* write, each a station of names with one value; the loop writes batch_size
\* lines per iteration and never runs more than full_batches times, and a
\* run that has not ended can take a step that raises nothing.
C10_WritesRows ==
    /\ g_pc = "loop" => Len(outfile) = batches_done * batch_size
    /\ g_pc \in {"close", "done"} =>
         /\ Len(outfile) = rows
         /\ Len(outfile) = full_batches * batch_size + remainder
         /\ batches_done = full_batches
         /\ \A i \in 1..Len(outfile) :
              /\ outfile[i].key \in Stations
              /\ RowConverts(outfile[i])
    /\ batches_done <= full_batches
    /\ g_pc \notin {"done", "exit1"} => ENABLED GenStep

\* C10 witness: a run with full batches and a tail write has returned.
C10_Witness ==
    /\ g_pc = "done"
    /\ full_batches >= 1
    /\ remainder >= 1
    /\ Len(outfile) = rows

====
